---- MODULE Spec2Model ----
(***************************************************************************)
(* A model of src/DQN.py: the replay buffer (ReplayBuffer), the learner    *)
(* (DqnLearner), the exploration schedule (epsilon_by_episode) and the     *)
(* message loop of main().                                                 *)
(*                                                                         *)
(* Numbers.  Floats are modelled by exact integers or exact rationals      *)
(* ([n |-> numerator, d |-> denominator], d > 0); rounding is not          *)
(* modelled.  Exploration probabilities are counted in tenths, so that the *)
(* literals 1.0 and 0.1 of the source are the integers 10 and 1.           *)
(*                                                                         *)
(* Not modelled: the socket and its framing, the wandb calls and the two   *)
(* locals that only feed them (latest_base_epsilon_unity,                  *)
(* latest_epsilon_used), printing, and the file written by save().  The    *)
(* per-episode record passed to wandb.log is kept, in last.episode_log.    *)
(***************************************************************************)
EXTENDS Integers, Sequences, FiniteSets, TLC

VARIABLES
    \* ---- ReplayBuffer exercised on its own (SpecStore) ----
    rb,            \* a ReplayBuffer object
    rb_n,          \* ghost: number of push calls made on rb
    rb_recent,     \* ghost: the most recent pushed transitions, oldest first
    rb_batch,      \* what the last sample() call returned (None before any)
    \* ---- epsilon_by_episode exercised on its own (SpecEps) ----
    eps_call,      \* the arguments and the result of the last call
    \* ---- a DqnLearner exercised on its own (SpecTrain) ----
    tl,            \* a DqnLearner object (None before it is constructed)
    tl_log,        \* ghost: what the last observe() call computed in its
                   \* training step (None if it ran none)
    \* ---- main(): the local variables of the message loop (Spec) ----
    step_count,
    state_dim,
    learner,
    episode_idx,
    episode_step,
    episode_return,
    episode_q_sum,
    episode_q_count,
    episode_loss_sum,
    episode_loss_count,
    episode_random_count,
    session,       \* "open", or "crashed" once an exception has left main()
    last,          \* ghost: the last line handled and what handling it did
    n_transitions, \* ghost: transition messages received
    n_observed     \* ghost: observe() calls that returned

storeVars == <<rb, rb_n, rb_recent, rb_batch>>
epsVars == <<eps_call>>
trainVars == <<tl, tl_log>>
episodeVars == <<episode_idx, episode_step, episode_return, episode_q_sum,
                 episode_q_count, episode_loss_sum, episode_loss_count,
                 episode_random_count>>
mainVars == <<step_count, state_dim, learner, episodeVars, session, last,
              n_transitions, n_observed>>
vars == <<storeVars, epsVars, trainVars, mainVars>>

\* Python's None, and a value that is present.
None == <<>>
Some(x) == <<x>>
Get(o) == o[1]

\* ---- bounds of the model -------------------------------------------------
StoreCap   == 2     \* capacity of the buffer exercised by SpecStore
MaxPushes  == 5     \* push calls explored by SpecStore
MaxBatch   == 3     \* largest batch_size passed to sample() by SpecStore
MaxEpisodeArg == 7  \* largest episode_idx passed by SpecEps
MaxDecay   == 5     \* largest decay_episodes passed by SpecEps
\* The learner that main() builds, scaled down: the source passes
\* capacity=100_000, batch_size=64, warmup=1_000 (first message an
\* action_request) or warmup=500 (first message a transition), and uses
\* MAX_STEPS_PER_EPISODE = 30 and CHECKPOINT_INTERVAL = 500.
Capacity              == 3
BatchSize             == 2
WarmupRequest         == 3
WarmupTransition      == 2
MAX_STEPS_PER_EPISODE == 2
CHECKPOINT_INTERVAL   == 3
MaxSteps   == 4     \* transition messages explored by Spec
MaxRandom  == 1     \* random choices per pseudo-episode explored by Spec
MaxQuerySteps  == 3 \* transition messages explored by SpecQuery
MaxQueryRandom == 3 \* random choices per pseudo-episode explored by SpecQuery
MaxShapeSteps  == 3 \* transition messages explored by SpecShapes
TrainCap       == 2   \* capacity of the learner exercised by SpecTrain
MaxTrainSteps  == 2   \* training steps explored by SpecTrain

\* ---- small helpers --------------------------------------------------------
Min(a, b) == IF a <= b THEN a ELSE b
Max(a, b) == IF a >= b THEN a ELSE b

\* np.zeros(n)
Zeros(n) == [i \in 1..n |-> 0]

(***************************************************************************)
(* numpy row assignment  arr[idx] = v  for a row of length D               *)
(* (lines 68 and 71): a vector of length D is copied, a vector of length 1 *)
(* is broadcast over the row, any other length raises ValueError.          *)
(***************************************************************************)
RowAssignable(D, v) == Len(v) = D \/ Len(v) = 1
RowAssigned(D, v) == IF Len(v) = D THEN v ELSE [i \in 1..D |-> v[1]]

\* ---- ReplayBuffer ---------------------------------------------------------
\* ReplayBuffer.__init__
ReplayBuffer(capacity, dim) ==
    [ capacity    |-> capacity,
      state_dim   |-> dim,
      states      |-> [i \in 0..(capacity - 1) |-> Zeros(dim)],
      actions     |-> [i \in 0..(capacity - 1) |-> 0],
      rewards     |-> [i \in 0..(capacity - 1) |-> 0],
      next_states |-> [i \in 0..(capacity - 1) |-> Zeros(dim)],
      dones       |-> [i \in 0..(capacity - 1) |-> 0],
      pos         |-> 0,
      size        |-> 0 ]

\* float(done)
FloatOfBool(b) == IF b THEN 1 ELSE 0

\* A push whose row assignments all succeed.
PushOk(buf, s, s_next) ==
    RowAssignable(buf.state_dim, s) /\ RowAssignable(buf.state_dim, s_next)

\* A mutant of push: the cursor is not wrapped and the size is not clamped.
push_nowrap(buf, s, a, r, s_next, done) ==
    LET idx == buf.pos % buf.capacity IN
    [ buf EXCEPT
        !.states      = [@ EXCEPT ![idx] = RowAssigned(buf.state_dim, s)],
        !.actions     = [@ EXCEPT ![idx] = a],
        !.rewards     = [@ EXCEPT ![idx] = r],
        !.next_states = [@ EXCEPT ![idx] = RowAssigned(buf.state_dim, s_next)],
        !.dones       = [@ EXCEPT ![idx] = FloatOfBool(done)],
        !.pos         = buf.pos + 1,
        !.size        = buf.size + 1 ]

\* ReplayBuffer.push, when no row assignment raises
push(buf, s, a, r, s_next, done) ==
    LET idx == buf.pos IN
    [ buf EXCEPT
        !.states      = [@ EXCEPT ![idx] = RowAssigned(buf.state_dim, s)],
        !.actions     = [@ EXCEPT ![idx] = a],
        !.rewards     = [@ EXCEPT ![idx] = r],
        !.next_states = [@ EXCEPT ![idx] = RowAssigned(buf.state_dim, s_next)],
        !.dones       = [@ EXCEPT ![idx] = FloatOfBool(done)],
        !.pos         = (buf.pos + 1) % buf.capacity,
        !.size        = Min(buf.size + 1, buf.capacity) ]

(***************************************************************************)
(* ReplayBuffer.push, when a row assignment raises: the assignments made   *)
(* before the failing one stay, the cursor and the size are not advanced.  *)
(***************************************************************************)
push_raised(buf, s, a, r, s_next, done) ==
    LET idx == buf.pos IN
    IF ~RowAssignable(buf.state_dim, s)
    THEN buf
    ELSE [ buf EXCEPT
             !.states  = [@ EXCEPT ![idx] = RowAssigned(buf.state_dim, s)],
             !.actions = [@ EXCEPT ![idx] = a],
             !.rewards = [@ EXCEPT ![idx] = r] ]

\* A mutant of SampleIndices: randint over the whole capacity.
SampleIndices_capacity(buf, batch_size) ==
    [1..batch_size -> 0..(buf.capacity - 1)]

\* np.random.randint(0, self.size, size=batch_size): every outcome it can draw
SampleIndices(buf, batch_size) ==
    [1..batch_size -> 0..(buf.size - 1)]

\* The batch that ReplayBuffer.sample builds from the drawn indices.
sample(buf, idxs) ==
    [ idxs        |-> idxs,
      states      |-> [i \in DOMAIN idxs |-> buf.states[idxs[i]]],
      actions     |-> [i \in DOMAIN idxs |-> buf.actions[idxs[i]]],
      rewards     |-> [i \in DOMAIN idxs |-> buf.rewards[idxs[i]]],
      next_states |-> [i \in DOMAIN idxs |-> buf.next_states[idxs[i]]],
      dones       |-> [i \in DOMAIN idxs |-> buf.dones[idxs[i]]] ]

\* ReplayBuffer.__len__
len(buf) == buf.size

\* ---- exact rationals ------------------------------------------------------
Rat(n, d) == [n |-> n, d |-> d]
RatOfInt(k) == Rat(k, 1)
RatLess(x, y) == x.n * y.d < y.n * x.d
RatEq(x, y) == x.n * y.d = y.n * x.d
RatLeq(x, y) == x.n * y.d <= y.n * x.d
RatMax(x, y) == IF RatLess(x, y) THEN y ELSE x

\* ---- epsilon schedule -----------------------------------------------------
\* A mutant of epsilon_by_episode: the schedule is held at eps_start up to
\* and including episode decay_episodes.
epsilon_by_episode_late(episode, eps_start, eps_min, decay_episodes) ==
    IF episode <= 1 THEN RatOfInt(eps_start)
    ELSE IF episode > decay_episodes THEN RatOfInt(eps_min)
    ELSE IF episode = decay_episodes THEN RatOfInt(eps_start)
    ELSE RatMax(RatOfInt(eps_min),
                Rat(eps_start * (decay_episodes - 1)
                      + (episode - 1) * (eps_min - eps_start),
                    decay_episodes - 1))

\* A mutant of epsilon_by_episode: the interpolation runs from eps_min up to
\* eps_start.
epsilon_by_episode_rising(episode, eps_start, eps_min, decay_episodes) ==
    IF episode <= 1 THEN RatOfInt(eps_start)
    ELSE IF episode >= decay_episodes THEN RatOfInt(eps_min)
    ELSE RatMax(RatOfInt(eps_min),
                Rat(eps_min * (decay_episodes - 1)
                      + (episode - 1) * (eps_start - eps_min),
                    decay_episodes - 1))

(***************************************************************************)
(* epsilon_by_episode.  t = (episode - 1) / (decay_episodes - 1) and   *)
(* eps = eps_start + t * (eps_min - eps_start) are kept as one exact       *)
(* fraction over decay_episodes - 1, which is at least 2 on that branch.   *)
(***************************************************************************)
epsilon_by_episode(episode, eps_start, eps_min, decay_episodes) ==
    IF episode <= 1 THEN RatOfInt(eps_start)
    ELSE IF episode >= decay_episodes THEN RatOfInt(eps_min)
    ELSE RatMax(RatOfInt(eps_min),
                Rat(eps_start * (decay_episodes - 1)
                      + (episode - 1) * (eps_min - eps_start),
                    decay_episodes - 1))

\* ---- numpy / torch helpers ------------------------------------------------
\* A mutant of argmax: the last of the maximal positions.
argmax_last(q) ==
    CHOOSE i \in 1..Len(q) :
        (\A j \in 1..Len(q) : q[j] <= q[i]) /\ (\A j \in (i + 1)..Len(q) : q[j] < q[i])

\* np.argmax: the first position of a maximal value (positions from 1).
argmax(q) ==
    CHOOSE i \in 1..Len(q) :
        (\A j \in 1..Len(q) : q[j] <= q[i]) /\ (\A j \in 1..(i - 1) : q[j] < q[i])

\* ---- QNetwork -------------------------------------------------------------
RECURSIVE SumSeq(_)
SumSeq(v) == IF v = <<>> THEN 0 ELSE Head(v) + SumSeq(Tail(v))

(***************************************************************************)
(* QNetwork.forward on one row.  The multi-layer network is modelled by a  *)
(* one-weight approximator over the concatenated input [state, a / 100]:   *)
(* Q = w * (sum(state) + a / node_id_scale), returned in units of          *)
(* 1 / node_id_scale so that it stays an integer.                          *)
(***************************************************************************)
node_id_scale == 100
forward(w, state, a) == w * (node_id_scale * SumSeq(state) + a)

\* ---- DqnLearner -----------------------------------------------------------
\* DqnLearner.__init__; w0 is the random initial weight of policy_net, which
\* load_state_dict copies into target_net.
DqnLearner(dim, batch_size, capacity, warmup, w0) ==
    [ state_dim        |-> dim,
      batch_size       |-> batch_size,
      warmup           |-> warmup,
      policy_net       |-> w0,
      target_net       |-> RatOfInt(w0),
      replay           |-> ReplayBuffer(capacity, dim),
      train_step_count |-> 0,
      last_loss        |-> None,
      known_actions    |-> {} ]

\* DqnLearner.predict_q raises when the row [state, a] does not have the
\* state_dim + 1 inputs of the first layer.
predict_q_raises(self, s) == Len(s) # self.state_dim

\* DqnLearner.predict_q, when it does not raise
predict_q(self, s, a) == forward(self.policy_net, s, a)

\* A mutant of SoftUpdate: a hard copy of the policy parameters.
SoftUpdate_hard(target, w) == RatOfInt(w)

\* The soft update of target_net at the end of a training step,
\* theta' <- (1 - tau) theta' + tau theta with tau = 0.005 = 1/200.
tau_inverse == 200
SoftUpdate(target, w) ==
    Rat((tau_inverse - 1) * target.n + w * target.d, tau_inverse * target.d)

\* ---- the targets of a training step ----------------------------------------
\* gamma = 0.99
gamma == Rat(99, 100)

\* sorted(self.known_actions)
RECURSIVE SortedSeq(_)
SortedSeq(S) ==
    IF S = {} THEN <<>>
    ELSE LET m == CHOOSE x \in S : \A y \in S : x <= y IN
         <<m>> \o SortedSeq(S \ {m})

\* target_net applied to one row; the target weight is a fraction.
forward_target(target, state, a) ==
    Rat(target.n * (node_id_scale * SumSeq(state) + a), target.d)

\* A mutant of best_idx: the action is selected under target_net.
best_idx_by_target(self, s_next) ==
    LET action_list == SortedSeq(self.known_actions) IN
    argmax([k \in 1..Len(action_list) |->
               forward_target(self.target_net, s_next, action_list[k]).n])

\* best_idx of one next state: q_all_policy.argmax over the sorted known
\* actions (a position, from 1).
best_idx(self, s_next) ==
    LET action_list == SortedSeq(self.known_actions) IN
    argmax([k \in 1..Len(action_list) |->
               forward(self.policy_net, s_next, action_list[k])])

\* max_next_q of one next state: target_net gathered at best_idx, or zero
\* when no action is known.
max_next_q(self, s_next) ==
    IF self.known_actions = {} THEN RatOfInt(0)
    ELSE forward_target(self.target_net, s_next,
                        SortedSeq(self.known_actions)[best_idx(self, s_next)])

\* A mutant of target_value: the bootstrap term is kept for done = 1.
target_value_bootstrapped(r, done, mnq) ==
    Rat(node_id_scale * r * gamma.d * mnq.d + gamma.n * mnq.n, gamma.d * mnq.d)

\* One entry of targets = rewards + gamma * (1.0 - dones) * max_next_q, in
\* units of 1 / node_id_scale like the network values; done is 0 or 1.
target_value(r, done, mnq) ==
    Rat(node_id_scale * r * gamma.d * mnq.d + gamma.n * (1 - done) * mnq.n,
        gamma.d * mnq.d)

\* The part of _train_step before the loss: the minibatch of the sampled
\* indices, max_next_q and targets, one entry per sampled transition.
train_targets(self, idxs) ==
    LET batch == sample(self.replay, idxs) IN
    [ batch      |-> batch,
      max_next_q |-> [i \in 1..Len(idxs) |->
                         max_next_q(self, batch.next_states[i])],
      targets    |-> [i \in 1..Len(idxs) |->
                         target_value(batch.rewards[i], batch.dones[i],
                                      max_next_q(self, batch.next_states[i]))] ]

(***************************************************************************)
(* DqnLearner._train_step.  The loss value and the move of the weight made *)
(* by the Adam step are outcomes of floating-point arithmetic over a       *)
(* random minibatch, which the model does not compute: loss is any of      *)
(* LossValues and the weight moves by any delta of Deltas.                 *)
(***************************************************************************)
_train_step(self, loss, delta) ==
    LET w == self.policy_net + delta IN
    [ self EXCEPT
        !.policy_net       = w,
        !.train_step_count = @ + 1,
        !.last_loss        = Some(loss),
        !.target_net       = SoftUpdate(@, w) ]

\* A mutant of observe_push: the action is not added to known_actions.
observe_push_unrecorded(self, s, a, r, s_next, done) ==
    [ self EXCEPT !.replay = push(@, s, a, r, s_next, done) ]

\* A mutant of observe_push: known_actions keeps the latest action only.
observe_push_latest_only(self, s, a, r, s_next, done) ==
    [ self EXCEPT
        !.replay        = push(@, s, a, r, s_next, done),
        !.known_actions = {a} ]

\* The part of DqnLearner.observe before the warmup test.
observe_push(self, s, a, r, s_next, done) ==
    [ self EXCEPT
        !.replay        = push(@, s, a, r, s_next, done),
        !.known_actions = @ \cup {a} ]

\* A mutant of observe_trains: the warmup test is strict.
observe_trains_strict(self) == len(self.replay) > self.warmup

\* The warmup test of DqnLearner.observe, made after the push.
observe_trains(self) == len(self.replay) >= self.warmup

\* DqnLearner.observe when push does not raise: the learner afterwards.
observe(self, s, a, r, s_next, done, loss, delta) ==
    LET pushed == observe_push(self, s, a, r, s_next, done) IN
    IF observe_trains(pushed)
    THEN _train_step(pushed, loss, delta)
    ELSE pushed

\* DqnLearner.observe when push raises: the learner as the exception leaves it.
observe_raised(self, s, a, r, s_next, done) ==
    [ self EXCEPT !.replay = push_raised(@, s, a, r, s_next, done) ]

\* ---- inputs ---------------------------------------------------------------
\* Transitions pushed by SpecStore, all of the buffer's state_dim.
StoreInputs ==
    { [s |-> <<0, 1>>, a |-> 1, r |-> 0, s_next |-> <<1, 0>>, done |-> FALSE],
      [s |-> <<1, 0>>, a |-> 2, r |-> 1, s_next |-> <<1, 1>>, done |-> TRUE],
      [s |-> <<1, 1>>, a |-> 3, r |-> 2, s_next |-> <<0, 1>>, done |-> FALSE],
      [s |-> <<0, 0>>, a |-> 1, r |-> 1, s_next |-> <<0, 0>>, done |-> TRUE] }
\* Arguments of epsilon_by_episode in SpecEps; probabilities in tenths.
EpsValues == {0, 1, 5, 10}
\* Fields of the messages received by main().
NodeIds == {1, 2}
Rewards == {0, 1}
StateVectors == { <<>>, <<1>>, <<0, 1>> }
CandidateLists == { <<>>, <<1, 2>> }
RequestEpsilons == { None, Some(0) }     \* absent, or 0.0
\* Outcomes of the random draws and of the floating-point training step.
InitWeights == {-1, 0, 1}
LossValues == {2}
Deltas == {-1, 1}
\* np.random.rand(), in tenths: 0.0 and a value just below 1.0
RandValues == { Rat(0, 1), Rat(19985, 1999) }

\* ---- the first state ------------------------------------------------------
Init ==
    /\ rb = ReplayBuffer(StoreCap, 2)
    /\ rb_n = 0
    /\ rb_recent = <<>>
    /\ rb_batch = None
    /\ eps_call = None
    /\ tl = None
    /\ tl_log = None
    /\ step_count = 0
    /\ state_dim = None
    /\ learner = None
    /\ episode_idx = 1
    /\ episode_step = 0
    /\ episode_return = 0
    /\ episode_q_sum = 0
    /\ episode_q_count = 0
    /\ episode_loss_sum = 0
    /\ episode_loss_count = 0
    /\ episode_random_count = 0
    /\ session = "open"
    /\ last = [line |-> [kind |-> "blank"], sent |-> <<>>,
               episode_log |-> None, loss_val |-> None, saved |-> None]
    /\ n_transitions = 0
    /\ n_observed = 0

\* ---- SpecStore: a ReplayBuffer, pushed to and sampled from -----------------
\* push(t); the ghost rb_recent keeps the last capacity transitions pushed.
StorePush(t) ==
    /\ rb_n < MaxPushes
    /\ rb' = push(rb, t.s, t.a, t.r, t.s_next, t.done)
    /\ rb_n' = rb_n + 1
    /\ rb_recent' = LET all == Append(rb_recent, t) IN
                    IF Len(all) > rb.capacity THEN Tail(all) ELSE all
    /\ rb_batch' = None
    /\ UNCHANGED <<epsVars, trainVars, mainVars>>

\* sample(batch_size) on a store that holds something
StoreSample(batch_size) ==
    /\ len(rb) >= 1
    /\ \E idxs \in SampleIndices(rb, batch_size) :
          rb_batch' = Some([batch_size |-> batch_size, batch |-> sample(rb, idxs)])
    /\ UNCHANGED <<rb, rb_n, rb_recent, epsVars, trainVars, mainVars>>

NextStore ==
    \/ \E t \in StoreInputs : StorePush(t)
    \/ \E batch_size \in 1..MaxBatch : StoreSample(batch_size)

SpecStore == Init /\ [][NextStore]_vars

\* ---- SpecEps: epsilon_by_episode applied to its arguments ------------------
EpsCall(episode, eps_start, eps_min, decay_episodes) ==
    /\ eps_call' = Some([ episode_idx    |-> episode,
                          eps_start      |-> eps_start,
                          eps_min        |-> eps_min,
                          decay_episodes |-> decay_episodes,
                          result         |-> epsilon_by_episode(
                              episode, eps_start, eps_min, decay_episodes) ])
    /\ UNCHANGED <<storeVars, trainVars, mainVars>>

NextEps ==
    \E i \in 0..MaxEpisodeArg, es \in EpsValues, em \in EpsValues,
       N \in 1..MaxDecay : EpsCall(i, es, em, N)

SpecEps == Init /\ [][NextEps]_vars

\* ---- SpecTrain: a DqnLearner, constructed and fed by observe ----------------
\* The moves of the weight drawn in SpecTrain: -2 takes the policy weight to
\* the other sign than the target's, -1 takes it to zero (all values tie).
TrainDeltas == { -2, -1 }

\* DqnLearner(state_dim=1, batch_size=2, capacity=TrainCap, warmup=1)
TrainCreate(w0) ==
    /\ tl = None
    /\ tl' = Some(DqnLearner(1, 2, TrainCap, 1, w0))
    /\ tl_log' = None
    /\ UNCHANGED <<storeVars, epsVars, mainVars>>

\* observe(s, a, r, s_next, done); when it trains, the ghost tl_log keeps the
\* learner as the training step found it, and the targets the step computed.
TrainObserve(s, a, r, s_next, done, loss, delta) ==
    /\ tl # None
    /\ Get(tl).train_step_count < MaxTrainSteps
    /\ tl' = Some(observe(Get(tl), s, a, r, s_next, done, loss, delta))
    /\ LET pushed == observe_push(Get(tl), s, a, r, s_next, done) IN
       IF observe_trains(pushed)
       THEN \E idxs \in SampleIndices(pushed.replay, pushed.batch_size) :
               tl_log' = Some([ self     |-> pushed,
                                observed |-> a,
                                step     |-> train_targets(pushed, idxs) ])
       ELSE tl_log' = None
    /\ UNCHANGED <<storeVars, epsVars, mainVars>>

NextTrain ==
    \/ \E w0 \in {1} : TrainCreate(w0)
    \/ \E s \in {<<1>>}, a \in NodeIds, r \in Rewards, s_next \in {<<1>>},
          done \in BOOLEAN, loss \in LossValues, delta \in TrainDeltas :
             TrainObserve(s, a, r, s_next, done, loss, delta)

SpecTrain == Init /\ [][NextTrain]_vars

\* ---- the message loop of main() -------------------------------------------
\* What handling one line did, for the ghost variable last.
Handled(line, sent, episode_log, loss_val, saved) ==
    [line |-> line, sent |-> sent, episode_log |-> episode_log,
     loss_val |-> loss_val, saved |-> saved]

\* A blank line, or a line that json.loads (or the decoding) rejects: continue.
RecvSkipped(kind) ==
    /\ session = "open"
    /\ last' = Handled([kind |-> kind], <<>>, None, None, None)
    /\ UNCHANGED <<step_count, state_dim, learner, episodeVars, session,
                   n_transitions, n_observed, storeVars, epsVars, trainVars>>

(***************************************************************************)
(* A line that json.loads accepts but that is no JSON object (a number, a  *)
(* string, a list, null): msg.get raises AttributeError outside any try.   *)
(***************************************************************************)
RecvNonObject ==
    /\ session = "open"
    /\ session' = "crashed"
    /\ last' = Handled([kind |-> "nonobject"], <<>>, None, None, None)
    /\ UNCHANGED <<step_count, state_dim, learner, episodeVars,
                   n_transitions, n_observed, storeVars, epsVars, trainVars>>

\* An object whose type is neither action_request nor transition.
RecvUnknown(type) ==
    /\ session = "open"
    /\ last' = Handled([kind |-> "object", type |-> type], <<>>, None, None, None)
    /\ UNCHANGED <<step_count, state_dim, learner, episodeVars, session,
                   n_transitions, n_observed, storeVars, epsVars, trainVars>>

\* A mutant of CandidateQ: a failing prediction is not replaced by 0.0.
CandidateQ_unguarded(lrn, s_t, cand_ids) ==
    [k \in 1..Len(cand_ids) |-> predict_q(lrn, s_t, cand_ids[k])]

\* The candidate values of an action_request: predict_q, or 0.0 when it raises.
CandidateQ(lrn, s_t, cand_ids) ==
    [k \in 1..Len(cand_ids) |->
        IF predict_q_raises(lrn, s_t) THEN 0 ELSE predict_q(lrn, s_t, cand_ids[k])]

\* A mutant of RequestEpsilon: the epsilon carried by the request is used.
RequestEpsilon_carried(episode, base_epsilon_unity) ==
    RatOfInt(base_epsilon_unity)

\* A mutant of RequestEpsilon: the schedule is indexed by the steps received.
RequestEpsilon_stepwise(episode, base_epsilon_unity) ==
    epsilon_by_episode(episode + episode_step, 10, 1, 2000)

\* The epsilon used for an action_request: the schedule at the episode
\* counter, with eps_start=1.0, eps_min=0.1 (in tenths), decay_episodes=2000;
\* the epsilon carried by the request (0.1 when absent) is not used.
RequestEpsilon(episode, base_epsilon_unity) ==
    epsilon_by_episode(episode, 10, 1, 2000)

\* A mutant of RequestIsEmpty: only an empty candidate list is discarded.
RequestIsEmpty_candidates_only(state_list, cand_ids) == Len(cand_ids) = 0

\* len(state_list) == 0 or len(cand_ids) == 0
RequestIsEmpty(state_list, cand_ids) == Len(state_list) = 0 \/ Len(cand_ids) = 0

\* A mutant of RequestLearner: every request starts from a new learner.
RequestLearner_fresh(state_list, w0) ==
    DqnLearner(IF state_dim = None THEN Len(state_list) ELSE Get(state_dim),
               BatchSize, Capacity, WarmupRequest, w0)

\* The learner an action_request is answered with: the one there is, or a
\* new one.
RequestLearner(state_list, w0) ==
    IF learner = None
    THEN DqnLearner(IF state_dim = None THEN Len(state_list) ELSE Get(state_dim),
                    BatchSize, Capacity, WarmupRequest, w0)
    ELSE Get(learner)

(***************************************************************************)
(* type == "action_request".  w0 is the initial weight if the learner is   *)
(* created here, rand_val the draw of np.random.rand() and rand_idx the    *)
(* draw of np.random.randint(len(cand_ids)) (positions from 1).            *)
(***************************************************************************)
RecvActionRequest(state_list, cand_ids, eps, w0, rand_val, rand_idx) ==
    LET line == [kind |-> "object", type |-> "action_request",
                 state |-> state_list, candidate_node_ids |-> cand_ids,
                 epsilon |-> eps]
        base_epsilon_unity == IF eps = None THEN 1 ELSE Get(eps)
    IN
    /\ session = "open"
    /\ IF RequestIsEmpty(state_list, cand_ids)
       THEN /\ last' = Handled(line, <<>>, None, None, None)
            /\ UNCHANGED <<state_dim, learner, episode_random_count>>
       ELSE \E lrn \in { RequestLearner(state_list, w0) } :
            LET dim == IF state_dim = None THEN Len(state_list) ELSE Get(state_dim)
                q_values == CandidateQ(lrn, state_list, cand_ids)
                epsilon == RequestEpsilon(episode_idx, base_epsilon_unity)
                is_random == RatLess(rand_val, epsilon)
                idx == IF is_random THEN rand_idx
                       ELSE argmax(q_values)
                reply == [ type               |-> "action_reply",
                           chosen_node_id     |-> cand_ids[idx],
                           candidate_node_ids |-> cand_ids,
                           q_values           |-> q_values,
                           epsilon            |-> epsilon,
                           is_random          |-> is_random ]
            IN
            /\ state_dim' = Some(dim)
            /\ learner' = Some(lrn)
            /\ episode_random_count' =
                  IF is_random THEN episode_random_count + 1
                  ELSE episode_random_count
            /\ last' = Handled(line, <<reply>>, None, None, None)
    /\ UNCHANGED <<step_count, episode_idx, episode_step, episode_return,
                   episode_q_sum, episode_q_count, episode_loss_sum,
                   episode_loss_count, session, n_transitions, n_observed,
                   storeVars, epsVars, trainVars>>

\* A mutant of EpisodeDone: the horizon is reached one step late.
EpisodeDone_late(step) == step > MAX_STEPS_PER_EPISODE

\* done = (episode_step >= MAX_STEPS_PER_EPISODE)
EpisodeDone(step) == step >= MAX_STEPS_PER_EPISODE

\* The per-episode record logged at the end of a pseudo-episode.
EpisodeLog(episode, step, return, q_sum, q_count, loss_sum, loss_count, random_count) ==
    [ episode     |-> episode,
      return      |-> return,
      avg_reward  |-> Rat(return, Max(1, step)),
      length      |-> step,
      avg_q_est   |-> Rat(q_sum, Max(1, q_count)),
      avg_loss    |-> IF loss_count > 0 THEN Rat(loss_sum, loss_count)
                      ELSE RatOfInt(0),
      random_rate |-> Rat(random_count, MAX_STEPS_PER_EPISODE) ]

\* A mutant of QEstimate: the value is predicted before observe has run.
QEstimate_stale(before, after, s_t, node_id, reward) ==
    IF predict_q_raises(before, s_t) THEN reward * node_id_scale
    ELSE predict_q(before, s_t, node_id)

\* q_est of a transition: predict_q on the learner after observe, or the
\* reward when predict_q raises (values in units of 1 / node_id_scale).
QEstimate(before, after, s_t, node_id, reward) ==
    IF predict_q_raises(after, s_t) THEN reward * node_id_scale
    ELSE predict_q(after, s_t, node_id)

\* The learner a transition is handled with: the one there is, or a new one.
TransitionLearner(s_t, w0) ==
    IF learner = None
    THEN DqnLearner(IF state_dim = None THEN Len(s_t) ELSE Get(state_dim),
                    BatchSize, Capacity, WarmupTransition, w0)
    ELSE Get(learner)

(***************************************************************************)
(* type == "transition".  w0 is the initial weight if the learner is       *)
(* created here; loss and delta are the outcome of the training step if    *)
(* observe runs one.                                                       *)
(***************************************************************************)
RecvTransition(node_id, reward, s_t, s_tp1, w0, loss, delta) ==
    LET line == [kind |-> "object", type |-> "transition", node_id |-> node_id,
                 reward |-> reward, state_t |-> s_t, state_tp1 |-> s_tp1]
        dim == IF state_dim = None THEN Len(s_t) ELSE Get(state_dim)
        step == episode_step + 1
        return == episode_return + reward
        done == EpisodeDone(step)
    IN
    /\ session = "open"
    /\ state_dim' = Some(dim)
    /\ step_count' = step_count + 1
    /\ n_transitions' = n_transitions + 1
    /\ \E lrn \in { TransitionLearner(s_t, w0) } :
       IF ~PushOk(lrn.replay, s_t, s_tp1)
       THEN \* push raises inside observe and nothing catches it
            /\ learner' = Some(observe_raised(lrn, s_t, node_id, reward, s_tp1, done))
            /\ episode_step' = step
            /\ episode_return' = return
            /\ session' = "crashed"
            /\ last' = Handled(line, <<>>, None, None, None)
            /\ UNCHANGED <<episode_idx, episode_q_sum, episode_q_count,
                           episode_loss_sum, episode_loss_count,
                           episode_random_count, n_observed>>
       ELSE \E after \in { observe(lrn, s_t, node_id, reward, s_tp1, done,
                                   loss, delta) } :
            \E q_est \in { QEstimate(lrn, after, s_t, node_id, reward) } :
            LET trained == after.train_step_count # lrn.train_step_count
                loss_val == IF trained THEN after.last_loss ELSE None
                q_sum == episode_q_sum + q_est
                q_count == episode_q_count + 1
                loss_sum == IF loss_val = None THEN episode_loss_sum
                            ELSE episode_loss_sum + Get(loss_val)
                loss_count == IF loss_val = None THEN episode_loss_count
                              ELSE episode_loss_count + 1
                q_msg == [ type     |-> "q_update",
                           node_ids |-> <<node_id>>,
                           q_values |-> <<q_est>> ]
                saved == IF (step_count + 1) % CHECKPOINT_INTERVAL = 0
                         THEN Some(step_count + 1) ELSE None
            IN
            /\ learner' = Some(after)
            /\ n_observed' = n_observed + 1
            /\ session' = session
            /\ IF done
               THEN /\ last' = Handled(line, <<q_msg>>,
                                  Some(EpisodeLog(episode_idx, step, return,
                                       q_sum, q_count, loss_sum, loss_count,
                                       episode_random_count)),
                                  loss_val, saved)
                    /\ episode_idx' = episode_idx + 1
                    /\ episode_step' = 0
                    /\ episode_return' = 0
                    /\ episode_q_sum' = 0
                    /\ episode_q_count' = 0
                    /\ episode_loss_sum' = 0
                    /\ episode_loss_count' = 0
                    /\ episode_random_count' = 0
               ELSE /\ last' = Handled(line, <<q_msg>>, None, loss_val, saved)
                    /\ episode_step' = step
                    /\ episode_return' = return
                    /\ episode_q_sum' = q_sum
                    /\ episode_q_count' = q_count
                    /\ episode_loss_sum' = loss_sum
                    /\ episode_loss_count' = loss_count
                    /\ UNCHANGED <<episode_idx, episode_random_count>>
    /\ UNCHANGED <<storeVars, epsVars, trainVars>>

\* ---- the draws that matter in the current state ---------------------------
\* The weight of a new learner, if the message creates one.
WeightDraws(weights) == IF learner = None THEN weights ELSE {0}
\* The outcome of a training step, if the transition causes one.
WillTrain(s_t, s_tp1) ==
    LET lrn == TransitionLearner(s_t, 0) IN
    /\ PushOk(lrn.replay, s_t, s_tp1)
    /\ Min(len(lrn.replay) + 1, lrn.replay.capacity) >= lrn.warmup
LossDraws(s_t, s_tp1) == IF WillTrain(s_t, s_tp1) THEN LossValues ELSE {0}
DeltaDraws(s_t, s_tp1) == IF WillTrain(s_t, s_tp1) THEN Deltas ELSE {0}
\* The random position of a candidate, if there is a candidate.
IndexDraws(cand_ids) == 1..Max(1, Len(cand_ids))
\* The state vectors of the dimensionality fixed so far (any, before that).
ShapedVectors ==
    { v \in StateVectors :
        Len(v) > 0 /\ (state_dim = None \/ Len(v) = Get(state_dim)) }

\* ---- Spec: a session of well-shaped messages and of bad lines --------------
Next ==
    \/ \E kind \in {"blank", "malformed"} : RecvSkipped(kind)
    \/ RecvNonObject
    \/ \E type \in {"ping"} : RecvUnknown(type)
    \/ /\ episode_random_count < MaxRandom
       /\ \E w0 \in WeightDraws({0, 1}), rand_val \in RandValues,
             rand_idx \in 1..2 :
                RecvActionRequest(<<0, 1>>, <<2, 1>>, Some(0), w0, rand_val, rand_idx)
    \/ /\ step_count < MaxSteps
       /\ \E node_id \in NodeIds, reward \in Rewards, w0 \in WeightDraws({0, 1}),
             loss \in LossDraws(<<0, 1>>, <<0, 1>>),
             delta \in DeltaDraws(<<0, 1>>, <<0, 1>>) :
                RecvTransition(node_id, reward, <<0, 1>>, <<0, 1>>, w0, loss, delta)

Spec == Init /\ [][Next]_vars

\* ---- SpecQuery: action requests of every kind, between few transitions -----
NextQuery ==
    \/ \E type \in {"ping"} : RecvUnknown(type)
    \/ /\ episode_random_count < MaxQueryRandom
       /\ \E state_list \in StateVectors, cand_ids \in CandidateLists,
             eps \in RequestEpsilons :
          \E w0 \in WeightDraws(InitWeights), rand_val \in RandValues,
             rand_idx \in IndexDraws(cand_ids) :
                RecvActionRequest(state_list, cand_ids, eps, w0, rand_val, rand_idx)
    \/ /\ step_count < MaxQuerySteps
       /\ \E node_id \in NodeIds, v \in ShapedVectors :
          \E w0 \in WeightDraws(InitWeights),
             loss \in LossDraws(v, v), delta \in DeltaDraws(v, v) :
                RecvTransition(node_id, 1, v, v, w0, loss, delta)

SpecQuery == Init /\ [][NextQuery]_vars

\* ---- SpecShapes: state vectors of every length ------------------------------
NextShapes ==
    \/ \E kind \in {"malformed"} : RecvSkipped(kind)
    \/ /\ episode_random_count < MaxRandom
       /\ \E state_list \in StateVectors \ {<<>>} :
          \E w0 \in WeightDraws({1}), rand_idx \in 1..2 :
             RecvActionRequest(state_list, <<2, 1>>, Some(0), w0, Rat(0, 1), rand_idx)
    \/ /\ step_count < MaxShapeSteps
       /\ \E node_id \in NodeIds, s_t \in StateVectors, s_tp1 \in StateVectors :
          \E w0 \in WeightDraws({1}),
             loss \in LossDraws(s_t, s_tp1), delta \in DeltaDraws(s_t, s_tp1) :
                RecvTransition(node_id, 1, s_t, s_tp1, w0, loss, delta)

SpecShapes == Init /\ [][NextShapes]_vars

\* ======================= claims on the Experience Store ====================
\* Slot i of buf holds exactly the transition t.
SlotHolds(buf, i, t) ==
    /\ buf.states[i] = t.s
    /\ buf.actions[i] = t.a
    /\ buf.rewards[i] = t.r
    /\ buf.next_states[i] = t.s_next
    /\ buf.dones[i] = FloatOfBool(t.done)

(***************************************************************************)
(* C1.  After n push calls on a store of capacity C: size = min(n, C),     *)
(* size <= C, the write cursor is n mod C, and the store holds exactly the *)
(* most recent min(n, C) pushed transitions, push number p (counted from   *)
(* 1) lying in slot (p - 1) mod C, so that push k overwrote the slot of    *)
(* push k - C and nothing newer.                                           *)
(***************************************************************************)
C1_RingSemantics ==
    LET C == rb.capacity
        m == Len(rb_recent) IN
    /\ rb.size = Min(rb_n, C)
    /\ rb.size <= C
    /\ rb.pos = rb_n % C
    /\ m = Min(rb_n, C)
    /\ \A k \in 1..m : SlotHolds(rb, (rb_n - m + k - 1) % C, rb_recent[k])

\* C1's case: pushes beyond the capacity have overwritten old entries.
C1_Witness == rb_n >= rb.capacity + 2 /\ rb.size = rb.capacity

(***************************************************************************)
(* C8.  sample(n) on a store with count >= 1 returns exactly n             *)
(* transitions, every slot index lies in [0, count), and every returned    *)
(* row is one of the transitions the store currently holds; this for every *)
(* n, also n > count.                                                      *)
(***************************************************************************)
C8_SampleInRange ==
    rb_batch # None =>
        LET n == Get(rb_batch).batch_size
            b == Get(rb_batch).batch IN
        /\ Len(b.idxs) = n /\ Len(b.states) = n /\ Len(b.actions) = n
        /\ Len(b.rewards) = n /\ Len(b.next_states) = n /\ Len(b.dones) = n
        /\ \A i \in 1..n :
              /\ b.idxs[i] \in 0..(rb.size - 1)
              /\ \E k \in 1..Len(rb_recent) :
                    /\ b.states[i] = rb_recent[k].s
                    /\ b.actions[i] = rb_recent[k].a
                    /\ b.rewards[i] = rb_recent[k].r
                    /\ b.next_states[i] = rb_recent[k].s_next
                    /\ b.dones[i] = FloatOfBool(rb_recent[k].done)

\* C8's case: a batch larger than the count, drawn from a store that still
\* has never-written slots.
C8_Witness ==
    /\ rb_batch # None
    /\ Get(rb_batch).batch_size > rb.size
    /\ rb.size < rb.capacity

\* ======================= claims on the exploration schedule ================
(***************************************************************************)
(* C10 as stated.  For every positive decay_episodes N and every           *)
(* eps_start, eps_min: epsilon(i) = eps_start for all i <= 1 and           *)
(* epsilon(i) = eps_min for all i >= N, hence epsilon(1) = eps_start and   *)
(* epsilon(N) = eps_min.                                                   *)
(***************************************************************************)
C10_EndpointsAsStated ==
    eps_call # None =>
        LET c == Get(eps_call) IN
        c.decay_episodes >= 1 =>
            /\ c.episode_idx <= 1 => RatEq(c.result, RatOfInt(c.eps_start))
            /\ c.episode_idx >= c.decay_episodes =>
                  RatEq(c.result, RatOfInt(c.eps_min))

(***************************************************************************)
(* C10 amended.  For every positive decay_episodes N and every eps_start,  *)
(* eps_min: epsilon(i) = eps_start for all i <= 1, and epsilon(i) =        *)
(* eps_min for all i >= N with i >= 2; hence epsilon(1) = eps_start, and   *)
(* epsilon(N) = eps_min for every N >= 2.                                  *)
(***************************************************************************)
C10_Endpoints ==
    eps_call # None =>
        LET c == Get(eps_call) IN
        c.decay_episodes >= 1 =>
            /\ c.episode_idx <= 1 => RatEq(c.result, RatOfInt(c.eps_start))
            /\ (c.episode_idx >= c.decay_episodes /\ c.episode_idx >= 2) =>
                  RatEq(c.result, RatOfInt(c.eps_min))

\* C10's case: the schedule called at its last decaying episode, i = N >= 2,
\* with two different endpoints.
C10_Witness ==
    /\ eps_call # None
    /\ Get(eps_call).decay_episodes >= 2
    /\ Get(eps_call).episode_idx = Get(eps_call).decay_episodes
    /\ Get(eps_call).eps_start # Get(eps_call).eps_min

(***************************************************************************)
(* C11.  For eps_start > eps_min the schedule never increases with the     *)
(* episode: epsilon(i) >= epsilon(j) whenever i <= j; and every value lies *)
(* in [eps_min, eps_start], eps_min being a floor.                         *)
(***************************************************************************)
C11_Monotone ==
    eps_call # None =>
        LET c == Get(eps_call) IN
        c.eps_start > c.eps_min =>
            /\ RatLeq(RatOfInt(c.eps_min), c.result)
            /\ RatLeq(c.result, RatOfInt(c.eps_start))
            /\ \A j \in c.episode_idx..(MaxEpisodeArg + 1) :
                  RatLeq(epsilon_by_episode(j, c.eps_start, c.eps_min,
                                            c.decay_episodes),
                         c.result)

\* C11's case: a call inside the decay, whose value lies strictly between
\* the two endpoints, with a later episode of a strictly smaller value.
C11_Witness ==
    /\ eps_call # None
    /\ Get(eps_call).episode_idx > 1
    /\ Get(eps_call).episode_idx + 1 < Get(eps_call).decay_episodes
    /\ RatLess(RatOfInt(Get(eps_call).eps_min), Get(eps_call).result)
    /\ RatLess(Get(eps_call).result, RatOfInt(Get(eps_call).eps_start))
    /\ RatLess(epsilon_by_episode(Get(eps_call).episode_idx + 1,
                                  Get(eps_call).eps_start, Get(eps_call).eps_min,
                                  Get(eps_call).decay_episodes),
               Get(eps_call).result)

\* ======================= claims on the learner and the session =============
IsTransition(line) == line.kind = "object" /\ line.type = "transition"
IsRequest(line) == line.kind = "object" /\ line.type = "action_request"

(***************************************************************************)
(* C2.  observe first pushes the transition; it then returns None and      *)
(* trains nothing if the store size is below warmup, and otherwise runs    *)
(* exactly one training step and returns its loss.  So on a fresh learner  *)
(* with warmup W <= capacity, after n observe calls train_step_count =     *)
(* max(0, n - W + 1), and last_loss is None exactly while                  *)
(* train_step_count = 0.                                                   *)
(***************************************************************************)
C2_ObserveWarmup ==
    learner # None =>
        LET l == Get(learner)
            C == l.replay.capacity IN
        /\ l.replay.size = Min(n_observed, C)
        /\ IsTransition(last.line) =>
              /\ SlotHolds(l.replay, (l.replay.pos + C - 1) % C,
                           [s |-> last.line.state_t, a |-> last.line.node_id,
                            r |-> last.line.reward, s_next |-> last.line.state_tp1,
                            done |-> last.episode_log # None])
              /\ (last.loss_val = None) <=> (l.replay.size < l.warmup)
              /\ last.loss_val # None => last.loss_val = l.last_loss
        /\ l.warmup <= C =>
              /\ l.train_step_count = Max(0, n_observed - l.warmup + 1)
              /\ (l.last_loss = None) <=> (l.train_step_count = 0)

\* C2's case: a learner created by an action_request (the larger warmup) that
\* has been through its warmup and two training steps.
C2_Witness ==
    /\ learner # None
    /\ Get(learner).warmup = WarmupRequest
    /\ Get(learner).train_step_count >= 2

(***************************************************************************)
(* C3.  After n transition messages the episode counter is 1 + n div H     *)
(* and the episode step is n mod H, whatever other lines came in between;  *)
(* the per-episode statistics are emitted exactly at the transitions that  *)
(* make n a multiple of H, they report length H, and right after them the  *)
(* step, return, q, loss and random-count accumulators are all zero.       *)
(***************************************************************************)
C3_EpisodeBoundary ==
    LET H == MAX_STEPS_PER_EPISODE IN
    /\ episode_idx = 1 + (n_transitions \div H)
    /\ episode_step = n_transitions % H
    /\ (last.episode_log # None) <=>
          (IsTransition(last.line) /\ n_transitions % H = 0)
    /\ last.episode_log # None =>
          /\ Get(last.episode_log).length = H
          /\ Get(last.episode_log).episode = episode_idx - 1
          /\ episode_step = 0 /\ episode_return = 0
          /\ episode_q_sum = 0 /\ episode_q_count = 0
          /\ episode_loss_sum = 0 /\ episode_loss_count = 0
          /\ episode_random_count = 0

\* C3's case: the second boundary, closing a pseudo-episode in which an
\* interleaved action_request made a random choice and a training step ran.
C3_Witness ==
    /\ last.episode_log # None
    /\ episode_idx = 3
    /\ Get(last.episode_log).random_rate.n > 0
    /\ Get(last.episode_log).avg_loss.n > 0
    /\ Get(last.episode_log).return > 0

\* The state vector(s) of a line do not all have length D.
MisShaped(line, D) ==
    \/ IsTransition(line) /\ (Len(line.state_t) # D \/ Len(line.state_tp1) # D)
    \/ IsRequest(line) /\ Len(line.state) # D

(***************************************************************************)
(* C4 as stated.  Once the state dimensionality D is fixed, a transition   *)
(* or action_request whose state vector length differs from D is           *)
(* rejected: the learner (store, counters, parameters) is left as it was   *)
(* and the session stays open.                                             *)
(***************************************************************************)
C4_ShapeErrorsRejected ==
    [][ (state_dim # None /\ MisShaped(last'.line, Get(state_dim))) =>
            (learner' = learner /\ session' = "open") ]_vars

\* The case of C5: a request carrying epsilon 0.0, with state and candidates,
\* handled by a learner that has not trained yet.
C5Case ==
    /\ IsRequest(last.line)
    /\ last.line.epsilon = Some(0)
    /\ Len(last.line.state) > 0 /\ Len(last.line.candidate_node_ids) > 0
    /\ learner # None
    /\ Get(learner).train_step_count = 0

\* The first candidate position whose predicted value is maximal.
BestCandidate(lrn, s_t, cand_ids) ==
    CHOOSE k \in 1..Len(cand_ids) :
        /\ \A j \in 1..Len(cand_ids) :
              forward(lrn.policy_net, s_t, cand_ids[j])
                  <= forward(lrn.policy_net, s_t, cand_ids[k])
        /\ \A j \in 1..(k - 1) :
              forward(lrn.policy_net, s_t, cand_ids[j])
                  < forward(lrn.policy_net, s_t, cand_ids[k])

(***************************************************************************)
(* C5 as stated.  An action_request carrying epsilon = 0.0, with non-empty *)
(* state and candidates, handled before any training step, is answered     *)
(* with is_random = false and the candidate of highest predicted Q.        *)
(***************************************************************************)
C5_GreedyAtRequestEpsilonZero ==
    C5Case =>
        /\ Len(last.sent) = 1
        /\ last.sent[1].is_random = FALSE
        /\ Len(last.line.state) = Get(state_dim) =>
              last.sent[1].chosen_node_id =
                  last.line.candidate_node_ids[
                      BestCandidate(Get(learner), last.line.state,
                                    last.line.candidate_node_ids)]

(***************************************************************************)
(* C5 amended.  Such a request is answered with the schedule's epsilon at  *)
(* the episode counter, not with the 0.0 it carries: the reply's epsilon   *)
(* is epsilon(episode_idx), which is 1.0 in the first pseudo-episode, so   *)
(* there is_random = true and chosen_node_id is some candidate; a reply    *)
(* with is_random = false comes only from the second pseudo-episode on,    *)
(* and its chosen_node_id is the first candidate of highest predicted Q.   *)
(***************************************************************************)
C5_ScheduleDecides ==
    C5Case =>
        LET reply == last.sent[1]
            cands == last.line.candidate_node_ids IN
        /\ Len(last.sent) = 1
        /\ reply.type = "action_reply"
        /\ RatEq(reply.epsilon, epsilon_by_episode(episode_idx, 10, 1, 2000))
        /\ episode_idx = 1 => reply.is_random = TRUE
        /\ \E k \in 1..Len(cands) : reply.chosen_node_id = cands[k]
        /\ reply.is_random = FALSE =>
              /\ episode_idx >= 2
              /\ Len(last.line.state) = Get(state_dim) =>
                    reply.chosen_node_id =
                        cands[BestCandidate(Get(learner), last.line.state, cands)]

\* C5's case: a greedy reply before any training, in the second
\* pseudo-episode, with candidates of different predicted values.
C5_Witness ==
    /\ C5Case
    /\ last.sent[1].is_random = FALSE
    /\ Len(last.line.state) = Get(state_dim)
    /\ Get(learner).policy_net # 0

(***************************************************************************)
(* C6.  Every transition message is answered, within its own handling, by  *)
(* exactly one q_update whose node_ids is [node_id] and whose single value *)
(* is Q(state_t, node_id) under the policy parameters as they are after    *)
(* the observe call (and its training step, if any) of that transition.    *)
(***************************************************************************)
C6_QUpdateAfterObserve ==
    IsTransition(last.line) =>
        last.sent = << [ type     |-> "q_update",
                         node_ids |-> <<last.line.node_id>>,
                         q_values |-> << forward(Get(learner).policy_net,
                                                 last.line.state_t,
                                                 last.line.node_id) >> ] >>

\* C6's case: a transition whose observe call ran a training step.
C6_Witness ==
    /\ IsTransition(last.line)
    /\ last.loss_val # None
    /\ Get(learner).train_step_count >= 2

(***************************************************************************)
(* C12.  The epsilon echoed in an action_reply is the schedule's value at  *)
(* the episode counter, epsilon(episode_idx, 1.0, 0.1, 2000), whatever     *)
(* epsilon the request carries, however many transitions the episode has   *)
(* seen and however many messages were received; so two requests handled   *)
(* in the same pseudo-episode get the same epsilon.                        *)
(***************************************************************************)
C12_EpsilonOfEpisodeAlone ==
    (IsRequest(last.line) /\ last.sent # <<>>) =>
        /\ RatEq(last.sent[1].epsilon,
                 epsilon_by_episode(episode_idx, 10, 1, 2000))
        /\ episode_idx = 1 => last.sent[1].is_random = TRUE

\* C12's case: a reply in the second pseudo-episode, after a transition of
\* that episode, to a request that carries epsilon 0.0.
C12_Witness ==
    /\ IsRequest(last.line) /\ last.sent # <<>>
    /\ last.line.epsilon = Some(0)
    /\ episode_idx = 2
    /\ episode_step = 1
    /\ RatLess(last.sent[1].epsilon, RatOfInt(10))

(***************************************************************************)
(* C13.  theta' equals theta at construction and as long as no training    *)
(* step has run; a step of the session that runs no training step leaves   *)
(* theta' as it was; a training step changes theta' exactly once, by       *)
(* theta' <- (1 - tau) theta' + tau theta with tau = 1/200 and theta the   *)
(* parameters the optimizer has just updated, so that theta' moves by the  *)
(* fraction tau of its distance to theta, never beyond theta, and is never *)
(* set to a copy of theta.  (Both fractions are compared over the          *)
(* denominator of the new theta'.)                                         *)
(***************************************************************************)
C13_TargetSync ==
    [][ /\ (learner' # None /\ Get(learner').train_step_count = 0) =>
              Get(learner').target_net = RatOfInt(Get(learner').policy_net)
        /\ (learner # None /\ learner' # None) =>
              IF Get(learner').train_step_count = Get(learner).train_step_count
              THEN Get(learner').target_net = Get(learner).target_net
              ELSE /\ Get(learner').train_step_count
                         = Get(learner).train_step_count + 1
                   /\ Get(learner').target_net.d
                         = tau_inverse * Get(learner).target_net.d
                   /\ Get(learner').target_net.n
                         - tau_inverse * Get(learner).target_net.n
                         = Get(learner').policy_net * Get(learner).target_net.d
                              - Get(learner).target_net.n
      ]_vars

\* C13's case: a learner after two training steps whose theta' differs from
\* theta, at a transition that also saved a checkpoint.
C13_Witness ==
    /\ learner # None
    /\ Get(learner).train_step_count >= 2
    /\ ~RatEq(Get(learner).target_net, RatOfInt(Get(learner).policy_net))
    /\ last.saved # None

\* The line is an action_request with a state and candidates.
IsAnsweredRequest(line) ==
    /\ IsRequest(line)
    /\ Len(line.state) > 0 /\ Len(line.candidate_node_ids) > 0

(***************************************************************************)
(* C14.  An action_request with a state and candidates is answered by      *)
(* exactly one action_reply, also when predict_q fails: q_values has the   *)
(* length and order of candidate_node_ids, a candidate whose prediction    *)
(* fails has 0.0 in its position, every other candidate has its predicted  *)
(* value, and the session stays open.                                      *)
(***************************************************************************)
C14_InferenceErrorsDegrade ==
    IsAnsweredRequest(last.line) =>
        LET cands == last.line.candidate_node_ids IN
        /\ session = "open"
        /\ Len(last.sent) = 1
        /\ last.sent[1].type = "action_reply"
        /\ last.sent[1].candidate_node_ids = cands
        /\ Len(last.sent[1].q_values) = Len(cands)
        /\ \A k \in 1..Len(cands) :
              last.sent[1].q_values[k] =
                  IF Len(last.line.state) # Get(learner).state_dim THEN 0
                  ELSE forward(Get(learner).policy_net, last.line.state, cands[k])
        /\ \E k \in 1..Len(cands) : last.sent[1].chosen_node_id = cands[k]

\* C14's case: a request whose state has not the learner's dimensionality,
\* so that predict_q fails, on a learner that would predict non-zero values;
\* the choice is greedy.
C14_Witness ==
    /\ IsAnsweredRequest(last.line)
    /\ Len(last.line.state) # Get(learner).state_dim
    /\ Get(learner).policy_net # 0
    /\ SumSeq(last.line.state) > 0
    /\ Len(last.sent) = 1
    /\ last.sent[1].is_random = FALSE

(***************************************************************************)
(* C15.  Handling an action_request on a learner that exists already       *)
(* leaves the learner as it was (store contents, size and cursor, known    *)
(* actions, theta, theta', training-step counter, last_loss) and leaves    *)
(* the global step counter, the episode counter, the episode step and the  *)
(* episode return unchanged.                                               *)
(***************************************************************************)
C15_QueriesReadOnly ==
    [][ (IsRequest(last'.line) /\ learner # None) =>
            /\ learner' = learner
            /\ UNCHANGED <<step_count, episode_idx, episode_step,
                           episode_return, n_transitions, n_observed>>
      ]_vars

\* C15's case: a request answered by a learner that has stored transitions,
\* knows actions and has trained.
C15_Witness ==
    /\ IsAnsweredRequest(last.line)
    /\ Len(last.sent) = 1
    /\ Get(learner).replay.size >= 2
    /\ Get(learner).known_actions # {}
    /\ Get(learner).train_step_count >= 1
    /\ episode_step > 0

\* The Known-Action Set of the session: empty while there is no learner.
KnownActions(lrn) == IF lrn = None THEN {} ELSE Get(lrn).known_actions

(***************************************************************************)
(* C18.  The Known-Action Set is empty at first, and every step of the     *)
(* session leaves it as it was, except that a transition handed to observe *)
(* adds its node_id: nothing is ever removed, and an action_request adds   *)
(* none of its candidates.  So the set is at any time the set of the       *)
(* node_ids of the transitions observed so far.                            *)
(***************************************************************************)
C18_KnownActionsGrow ==
    [][ KnownActions(learner') =
            KnownActions(learner) \cup
                (IF n_observed' = n_observed + 1 THEN {last'.line.node_id}
                 ELSE {}) ]_vars

\* C18's case: after two observed transitions of the same node_id, a request
\* has been answered whose candidates include an id never observed.
C18_Witness ==
    /\ IsAnsweredRequest(last.line)
    /\ n_observed >= 2
    /\ KnownActions(learner) = {1}
    /\ \E k \in 1..Len(last.line.candidate_node_ids) :
          last.line.candidate_node_ids[k] \notin KnownActions(learner)

(***************************************************************************)
(* C19 as stated.  The number of transitions needed before the first       *)
(* training step is the same in every session, whichever message created   *)
(* the learner: as in the sessions that begin with a transition, the       *)
(* learner has trained exactly when as many transitions were observed as   *)
(* the warmup of the transition handler's learner.                         *)
(***************************************************************************)
C19_WarmupSameEitherWay ==
    learner # None =>
        /\ Get(learner).warmup = WarmupTransition
        /\ Get(learner).train_step_count >= 1 <=> n_observed >= WarmupTransition

(***************************************************************************)
(* C20 as stated.  The random choices counted within a pseudo-episode      *)
(* never exceed H, and the random-action rate emitted at an episode        *)
(* boundary lies in [0, 1].                                                *)
(***************************************************************************)
C20_RandomRateInUnitInterval ==
    /\ episode_random_count <= MAX_STEPS_PER_EPISODE
    /\ last.episode_log # None =>
          /\ 0 <= Get(last.episode_log).random_rate.n
          /\ Get(last.episode_log).random_rate.n
                <= Get(last.episode_log).random_rate.d

(***************************************************************************)
(* C21.  In every action_reply chosen_node_id is one of the request's      *)
(* candidate_node_ids, and when is_random is false it is the first         *)
(* candidate, in request order, whose value in the reply's q_values is     *)
(* maximal.                                                                *)
(***************************************************************************)
C21_ChosenIsCandidate ==
    (IsRequest(last.line) /\ last.sent # <<>>) =>
        LET reply == last.sent[1]
            cands == last.line.candidate_node_ids
            q == reply.q_values IN
        /\ reply.candidate_node_ids = cands
        /\ \E k \in 1..Len(cands) : reply.chosen_node_id = cands[k]
        /\ reply.is_random = FALSE =>
              \E k \in 1..Len(cands) :
                 /\ reply.chosen_node_id = cands[k]
                 /\ \A j \in 1..Len(cands) : q[j] <= q[k]
                 /\ \A j \in 1..(k - 1) : q[j] < q[k]

\* C21's case: a greedy reply over two candidates of equal value.
C21_Witness ==
    /\ IsRequest(last.line) /\ last.sent # <<>>
    /\ last.sent[1].is_random = FALSE
    /\ Len(last.sent[1].q_values) = 2
    /\ last.sent[1].q_values[1] = last.sent[1].q_values[2]
    /\ last.sent[1].chosen_node_id = last.line.candidate_node_ids[1]

\* ======================= claims on the training step =======================
(***************************************************************************)
(* C16.  In every training step the target of each sampled transition is   *)
(* y = r + gamma * (1 - done) * max_next_q; so for a sampled transition    *)
(* stored with done = true the target is its reward alone, whatever the    *)
(* networks give for its next state.  (Values in units of 1 /              *)
(* node_id_scale.)                                                         *)
(***************************************************************************)
C16_TerminalTargetIsReward ==
    tl_log # None =>
        LET st == Get(tl_log).step IN
        \A i \in 1..Len(st.targets) :
            LET y == st.targets[i]
                r == st.batch.rewards[i]
                d == st.batch.dones[i]
                m == st.max_next_q[i] IN
            /\ d \in {0, 1}
            /\ d = 1 => y.n = node_id_scale * r * y.d
            /\ y.d = gamma.d * m.d
            /\ y.n = node_id_scale * r * y.d + (1 - d) * gamma.n * m.n

\* C16's case: a minibatch with a terminal transition whose next state has a
\* non-zero bootstrapped value, and a non-terminal one.
C16_Witness ==
    /\ tl_log # None
    /\ \E i, j \in 1..Len(Get(tl_log).step.targets) :
          /\ Get(tl_log).step.batch.dones[i] = 1
          /\ Get(tl_log).step.max_next_q[i].n # 0
          /\ Get(tl_log).step.batch.rewards[i] = 1
          /\ Get(tl_log).step.batch.dones[j] = 0

(***************************************************************************)
(* C17.  In a training step the bootstrapped value of each sampled next    *)
(* state s' is Q under theta' of (s', best), where best is the known       *)
(* action that maximizes Q under theta of (s', a), the smallest such       *)
(* action on ties; the known actions are those at that training step, the  *)
(* action just observed included.                                          *)
(***************************************************************************)
C17_DoubleDqnValue ==
    tl_log # None =>
        LET self == Get(tl_log).self
            st == Get(tl_log).step
            acts == self.known_actions IN
        /\ Get(tl_log).observed \in acts
        /\ \A i \in 1..Len(st.max_next_q) :
              LET s_next == st.batch.next_states[i]
                  best == CHOOSE a \in acts :
                             \A b \in acts :
                                \/ forward(self.policy_net, s_next, b)
                                      < forward(self.policy_net, s_next, a)
                                \/ /\ forward(self.policy_net, s_next, b)
                                        = forward(self.policy_net, s_next, a)
                                   /\ a <= b
              IN st.max_next_q[i] = forward_target(self.target_net, s_next, best)

\* C17's case: a training step that knows two actions, the second of them
\* just observed, with theta negative and theta' positive, so that the two
\* networks prefer different actions.
C17_Witness ==
    /\ tl_log # None
    /\ Get(tl_log).self.known_actions = {1, 2}
    /\ Get(tl_log).self.replay.size = 2
    /\ \A k \in 0..1 : Get(tl_log).self.replay.actions[k] = 1
                          <=> k # (Get(tl_log).self.replay.pos + 1) % 2
    /\ Get(tl_log).observed = 2
    /\ Get(tl_log).self.policy_net < 0
    /\ Get(tl_log).self.target_net.n > 0

(***************************************************************************)
(* C22.  Whenever a training step runs inside observe, the Known-Action    *)
(* Set is not empty and contains the action of every transition the store  *)
(* holds; so max_next_q is never the all-zero value of the empty set but   *)
(* the target network's value at a known action.                           *)
(***************************************************************************)
C22_KnownActionsCoverStore ==
    tl_log # None =>
        LET self == Get(tl_log).self
            st == Get(tl_log).step IN
        /\ self.known_actions # {}
        /\ \A k \in 0..(self.replay.size - 1) :
              self.replay.actions[k] \in self.known_actions
        /\ \A i \in 1..Len(st.max_next_q) :
              \E a \in self.known_actions :
                 st.max_next_q[i] =
                     forward_target(self.target_net, st.batch.next_states[i], a)

\* C22's case: the first training step of a learner, run by the observe call
\* that stored its first transition, and whose bootstrapped values are not
\* zero.
C22_Witness ==
    /\ tl_log # None
    /\ Get(tl_log).self.train_step_count = 0
    /\ Get(tl_log).self.replay.size = 1
    /\ Get(tl_log).self.known_actions = {Get(tl_log).observed}
    /\ \A i \in 1..Len(Get(tl_log).step.max_next_q) :
          Get(tl_log).step.max_next_q[i].n # 0

\* A line that is no message: it does not parse as a JSON object, or its
\* type is neither action_request nor transition.
IsBadLine(line) ==
    \/ line.kind \in {"malformed", "nonobject"}
    \/ line.kind = "object" /\ line.type \notin {"action_request", "transition"}

(***************************************************************************)
(* C7 as stated.  A line that is not parseable as a JSON message, or whose *)
(* type is neither action_request nor transition, produces no reply,       *)
(* changes no learner, store, step or episode state, and leaves the        *)
(* session open.                                                           *)
(***************************************************************************)
C7_BadLinesSkipped ==
    [][ IsBadLine(last'.line) =>
            /\ last'.sent = <<>>
            /\ UNCHANGED <<step_count, state_dim, learner, episodeVars>>
            /\ session' = "open" ]_vars

(***************************************************************************)
(* C9.  An action_request with an empty state or an empty candidate list   *)
(* is a no-op: no reply is sent, D stays unset if it was unset, no learner *)
(* is created, and the step, episode and learner state are unchanged.      *)
(***************************************************************************)
C9_EmptyRequestNoOp ==
    [][ ( /\ IsRequest(last'.line)
          /\ (Len(last'.line.state) = 0 \/ Len(last'.line.candidate_node_ids) = 0) )
        =>  /\ last'.sent = <<>>
            /\ UNCHANGED <<step_count, state_dim, learner, episodeVars, session,
                           n_transitions, n_observed>> ]_vars

\* C9's case: a request with an empty state handled before D is set.
C9_Witness ==
    /\ IsRequest(last.line)
    /\ Len(last.line.state) = 0
    /\ Len(last.line.candidate_node_ids) > 0
    /\ state_dim = None
    /\ learner = None

====
